---- MODULE Spec2Model ----
(***************************************************************************)
(* Model of the guitar input pipeline: ListenerGuitarra (serial polling    *)
(* loop, edge detection, callback registry, lifecycle) and                  *)
(* InterfaceGuitarra (note resolver wired on top of the listener).          *)
(*                                                                          *)
(* Numbers that are floats in the program (codigo, range) are kept in      *)
(* units of 0.25, all exactly representable in binary floating point.       *)
(* A serial line is a sequence of one-character tokens:                     *)
(*   "0" "1" "2"  ASCII digits           "sup2"  U+00B2 (superscript two)   *)
(*   "x"          a letter               ";"     the field separator        *)
(*   " " "nl"     whitespace, newline    "xFF"   a byte that is not UTF-8   *)
(***************************************************************************)
EXTENDS Integers, Sequences, FiniteSets, TLC

\* ------------------------------------------------------------------ bounds
MaxThreads == 2
MaxCallbacks == 2
MaxValores == 3

\* ------------------------------------------------------- text of one line
Whitespace == {" ", "nl"}

DecimalChars == {"0", "1", "2"}

\* str.isnumeric() accepts every character with a Unicode numeric value,
\* float() only decimal digits.
NumericChars == DecimalChars \cup {"sup2"}

DigitValue(c) == CASE c = "0" -> 0 [] c = "1" -> 1 [] c = "2" -> 2 [] OTHER -> 0

\* bytes.decode(): fails on a byte sequence that is not UTF-8
Decodable(bytes) == \A i \in 1..Len(bytes) : bytes[i] # "xFF"

RECURSIVE LStrip(_)
LStrip(s) ==
    IF s # << >> /\ Head(s) \in Whitespace THEN LStrip(Tail(s)) ELSE s

RECURSIVE RStrip(_)
RStrip(s) ==
    IF s # << >> /\ s[Len(s)] \in Whitespace
    THEN RStrip(SubSeq(s, 1, Len(s) - 1))
    ELSE s

\* str.strip()
Strip(s) == RStrip(LStrip(s))

RECURSIVE SplitSemi(_)
\* str.split(';')
SplitSemi(s) ==
    IF \E i \in 1..Len(s) : s[i] = ";"
    THEN LET i == CHOOSE k \in 1..Len(s) :
                      s[k] = ";" /\ \A j \in 1..(k - 1) : s[j] # ";"
         IN  << SubSeq(s, 1, i - 1) >> \o SplitSemi(SubSeq(s, i + 1, Len(s)))
    ELSE << s >>

\* [x.strip() for x in linha.split(';')]
LinhaLista(linha) ==
    LET parts == SplitSemi(linha)
    IN  [i \in 1..Len(parts) |-> Strip(parts[i])]

\* str.isnumeric(): non-empty and every character numeric
IsNumeric(s) == s # << >> /\ \A i \in 1..Len(s) : s[i] \in NumericChars

\* float() succeeds on a string of decimal digits only
FloatParses(s) == s # << >> /\ \A i \in 1..Len(s) : s[i] \in DecimalChars

RECURSIVE DecimalValue(_)
DecimalValue(s) ==
    IF s = << >> THEN 0
    ELSE 10 * DecimalValue(SubSeq(s, 1, Len(s) - 1)) + DigitValue(s[Len(s)])

\* float(identificador_raw), in units of 0.25
ToFloat(s) == 4 * DecimalValue(s)

NotaGuitarra(c, o) == [codigo |-> c, on |-> o]

\* The body of one loop iteration after readline(), up to the edge test:
\*   "skip"       one of the `continue` statements was taken
\*   "ValueError" float() raised (not caught anywhere in _loop)
\*   "nota"       a sample was decoded
ParseLine(bytes) ==
    IF ~Decodable(bytes) THEN [kind |-> "skip", nota |-> << >>]
    ELSE LET linha_lista == LinhaLista(bytes)
         IN  IF Len(linha_lista) # 2 THEN [kind |-> "skip", nota |-> << >>]
             ELSE IF ~IsNumeric(linha_lista[1])
                  THEN [kind |-> "skip", nota |-> << >>]
             ELSE IF ~FloatParses(linha_lista[1])
                  THEN [kind |-> "ValueError", nota |-> << >>]
             ELSE IF linha_lista[2] \notin {<<"1">>, <<"0">>}
                  THEN [kind |-> "skip", nota |-> << >>]
             ELSE [kind |-> "nota",
                   nota |-> << NotaGuitarra(ToFloat(linha_lista[1]),
                                            Head(linha_lista[2]) = "1") >>]

\* ------------------------------------------------- lines the device sends
CodeFields == { <<"1">>, <<"2">>, <<" ", "1">>, <<"x">>, <<"sup2">>, << >>, <<"xFF">> }

FlagFields == { <<"1">>, <<"0">>, <<"x">>, << >> }

Lines ==
    { f \o <<"nl">> : f \in CodeFields }
    \cup { c \o <<";">> \o f \o <<"nl">> : c \in CodeFields, f \in FlagFields }
    \cup { <<"1", ";", "1", ";">> \o f \o <<"nl">> : f \in FlagFields }

\* ------------------------------------------------------------- constants
NoThread == 0

Threads == 1..MaxThreads

Ports == {"p1", "p2"}

\* InterfaceGuitarra._porta: the port handed to the constructor
porta == "p1"

\* values a caller may assign to ListenerGuitarra.range (v in units of 0.25)
RangeValues ==
    { [ty |-> "float", v |-> k] : k \in {-1, 0, 1, 2, 3} }
    \cup { [ty |-> "nan", v |-> 0], [ty |-> "int", v |-> 0],
           [ty |-> "int", v |-> 4], [ty |-> "str", v |-> 0] }

\* keyword arguments of atribui_notas: <<name, code>> pairs, in call order
KwargsSet ==
    { << <<"nota1", 1>> >>,
      << <<"nota1", 1>>, <<"nota2", 2>> >>,
      << <<"nota2", 1>> >> }

\* the keyword arguments of Jogo._iniciar_guitarra, for the codes on the wire
CoreKwargs == << <<"nota1", 1>>, <<"nota2", 2>> >>

\* codes of the events handed to InterfaceGuitarra._callback (units of 0.25)
EventCodes == {2, 4, 6, 8}

VARIABLES
    input_port,         \* ListenerGuitarra._input_port: "None" or a port
    port_open,          \* Serial.is_open of every port
    callbacks,          \* ListenerGuitarra._callbacks
    lock,               \* ListenerGuitarra._lock: "free", "caller" or "poll"
    range,              \* ListenerGuitarra._range: [nan, v], v in units of 0.25
    running,            \* ListenerGuitarra._running
    thread,             \* ListenerGuitarra._thread: NoThread or a thread
    nota_buffer,        \* ListenerGuitarra._nota_buffer: << >> or << nota >>
    tpc,                \* position of every Thread(target=_loop)
    linha_bytes,        \* _loop's local linha_bytes, per thread
    ret,                \* _loop's local ret while it is being dispatched
    idx,                \* position of `for c in self._callbacks`, per thread
    pc,                 \* position of the caller thread
    arg,                \* argument of the call the caller is in
    via,                \* "iface" inside InterfaceGuitarra.start()/stop()
    valores_dicionario, \* InterfaceGuitarra._valores_dicionario
    dicionario,         \* InterfaceBase._dicionario: << <<code, name>>, ... >>
    rangen,             \* InterfaceGuitarra._range, in units of 0.25
    sent,               \* calls c(ret) made since the last line was read
    user,               \* calls of _callback_usuario since the last line was read
    last,               \* << >>, or << buffer, sample >> of the last line read
                        \* if it was decoded: the buffer it was compared with
    earlier,            \* the thread of the last start() has not been joined
                        \* and _nota_buffer holds a sample stored before that
                        \* start() created it
    chamadas            \* number of calls of atribui_notas made so far

vars == << input_port, port_open, callbacks, lock, range, running, thread,
           nota_buffer, tpc, linha_bytes, ret, idx, pc, arg, via,
           valores_dicionario, dicionario, rangen, sent, user, last,
           earlier, chamadas >>

listener == << input_port, port_open, callbacks, lock, range, running, thread,
               nota_buffer >>

loop == << tpc, linha_bytes, ret, idx >>

caller == << pc, arg, via >>

interface == << valores_dicionario, dicionario, rangen, chamadas >>

observed == << sent, user, last, earlier >>

\* ListenerGuitarra.__init__ and InterfaceGuitarra.__init__; the port handed
\* to the interface is open (Serial(porta) opens it), the other one is not.
Constructed ==
    /\ input_port = "None"
    /\ port_open = [p \in Ports |-> p = porta]
    /\ callbacks = << >>
    /\ lock = "free"
    /\ range = [nan |-> FALSE, v |-> 2]
    /\ running = FALSE
    /\ thread = NoThread
    /\ nota_buffer = << >>
    /\ tpc = [t \in Threads |-> "none"]
    /\ linha_bytes = [t \in Threads |-> << >>]
    /\ ret = [t \in Threads |-> << >>]
    /\ idx = [t \in Threads |-> 0]
    /\ pc = "idle"
    /\ arg = "None"
    /\ via = "none"
    /\ sent = << >>
    /\ user = << >>
    /\ last = << >>
    /\ earlier = FALSE

Abs(x) == IF x < 0 THEN -x ELSE x

Alive(t) == tpc[t] \in {"test", "read", "parse", "lock", "disp", "call"}

Dead(t) == tpc[t] \in {"exit", "ValueError", "AttributeError", "PortNotOpenError"}

\* ------------------------------------------------ ListenerGuitarra.range
\* range.setter: isinstance(value, float) holds for floats, NaN included
RangeSetter(value, old) ==
    IF value.ty = "float"
    THEN IF value.v > 2 THEN [nan |-> FALSE, v |-> 2]
         ELSE IF value.v < 0 THEN [nan |-> FALSE, v |-> 0]
         ELSE [nan |-> FALSE, v |-> value.v]
    ELSE IF value.ty = "nan" THEN [nan |-> TRUE, v |-> 0]
    ELSE old

SetRange(value) ==
    /\ pc = "idle"
    /\ range' = RangeSetter(value, range)
    /\ UNCHANGED << input_port, port_open, callbacks, lock, running, thread,
                    nota_buffer >>
    /\ UNCHANGED << loop, caller, interface, observed >>

\* --------------------------------------------------- return of a call
\* Where the caller continues when a ListenerGuitarra call returns:
\* InterfaceGuitarra.start() is callback setter; input_port setter; start().
AfterCallback == IF via = "iface" THEN "sp_open" ELSE "idle"

\* what port.open() raises
SerialException == "SerialException"

AfterSetPort == IF via = "iface" THEN "st_check" ELSE "idle"

\* ------------------------------------------- ListenerGuitarra.input_port
BeginSetPort(p) ==
    /\ pc = "idle"
    /\ pc' = "sp_open"
    /\ arg' = p
    /\ via' = "none"
    /\ UNCHANGED << listener, loop, interface, observed >>

\* the setter with the failure of open() swallowed
SpOpen_Swallowed ==
    /\ pc = "sp_open"
    /\ \/ /\ port_open[arg]
          /\ pc' = "sp_lock"
          /\ UNCHANGED << port_open, arg, via >>
       \/ /\ ~port_open[arg]
          /\ port_open' = [port_open EXCEPT ![arg] = TRUE]
          /\ pc' = "sp_lock"
          /\ UNCHANGED << arg, via >>
       \/ /\ ~port_open[arg]
          /\ pc' = "sp_lock"
          /\ UNCHANGED << port_open, arg, via >>
    /\ UNCHANGED << input_port, callbacks, lock, range, running, thread,
                    nota_buffer >>
    /\ UNCHANGED << loop, interface, observed >>

\* if not port.is_open: port.open()   -- open() raises when the device is
\* missing; the exception leaves the setter, and InterfaceGuitarra.start()
\* around it, and the caller holds it
SpOpen ==
    /\ pc = "sp_open"
    /\ \/ /\ port_open[arg]
          /\ pc' = "sp_lock"
          /\ UNCHANGED << port_open, arg, via >>
       \/ /\ ~port_open[arg]
          /\ port_open' = [port_open EXCEPT ![arg] = TRUE]
          /\ pc' = "sp_lock"
          /\ UNCHANGED << arg, via >>
       \/ /\ ~port_open[arg]
          /\ pc' = "idle"
          /\ arg' = SerialException
          /\ via' = "none"
          /\ UNCHANGED port_open
    /\ UNCHANGED << input_port, callbacks, lock, range, running, thread,
                    nota_buffer >>
    /\ UNCHANGED << loop, interface, observed >>

SpLock ==
    /\ pc = "sp_lock"
    /\ lock = "free"
    /\ lock' = "caller"
    /\ pc' = "sp_close"
    /\ UNCHANGED << input_port, port_open, callbacks, range, running, thread,
                    nota_buffer, arg, via >>
    /\ UNCHANGED << loop, interface, observed >>

\* the ports open after `if self._input_port is not None: self._input_port.close()`
ClosePrevious(held, open) ==
    IF held # "None" THEN [open EXCEPT ![held] = FALSE] ELSE open

SpClose ==
    /\ pc = "sp_close"
    /\ port_open' = ClosePrevious(input_port, port_open)
    /\ pc' = "sp_assign"
    /\ UNCHANGED << input_port, callbacks, lock, range, running, thread,
                    nota_buffer, arg, via >>
    /\ UNCHANGED << loop, interface, observed >>

\* self._input_port = port; the lock is released; the setter returns
SpAssign ==
    /\ pc = "sp_assign"
    /\ input_port' = arg
    /\ lock' = "free"
    /\ pc' = AfterSetPort
    /\ arg' = "None"
    /\ UNCHANGED << port_open, callbacks, range, running, thread, nota_buffer,
                    via >>
    /\ UNCHANGED << loop, interface, observed >>

\* --------------------------------------------- ListenerGuitarra.callback
BeginCallback(f) ==
    /\ pc = "idle"
    /\ Len(callbacks) < MaxCallbacks
    /\ pc' = "cb_lock"
    /\ arg' = f
    /\ via' = "none"
    /\ UNCHANGED << listener, loop, interface, observed >>

\* the callback setter without `with self._lock`
CbLock_Unlocked ==
    /\ pc = "cb_lock"
    /\ pc' = "cb_append"
    /\ UNCHANGED << listener, arg, via >>
    /\ UNCHANGED << loop, interface, observed >>

CbLock ==
    /\ pc = "cb_lock"
    /\ lock = "free"
    /\ lock' = "caller"
    /\ pc' = "cb_append"
    /\ UNCHANGED << input_port, port_open, callbacks, range, running, thread,
                    nota_buffer, arg, via >>
    /\ UNCHANGED << loop, interface, observed >>

CbAppend ==
    /\ pc = "cb_append"
    /\ callbacks' = Append(callbacks, arg)
    /\ lock' = "free"
    /\ pc' = AfterCallback
    /\ arg' = IF via = "iface" THEN porta ELSE "None"
    /\ UNCHANGED << input_port, port_open, range, running, thread, nota_buffer,
                    via >>
    /\ UNCHANGED << loop, interface, observed >>

\* ------------------------------------------------- ListenerGuitarra.stop
\* ListenerGuitarra.stop() (v = "none") or InterfaceGuitarra.stop() (v = "iface")
BeginStop(v) ==
    /\ pc = "idle"
    /\ pc' = "stop_lock"
    /\ via' = v
    /\ arg' = "None"
    /\ UNCHANGED << listener, loop, interface, observed >>

StopLock ==
    /\ pc = "stop_lock"
    /\ lock = "free"
    /\ lock' = "caller"
    /\ pc' = "stop_pass"
    /\ UNCHANGED << input_port, port_open, callbacks, range, running, thread,
                    nota_buffer, arg, via >>
    /\ UNCHANGED << loop, interface, observed >>

\* `pass`, the lock is released, stop() returns
StopPass ==
    /\ pc = "stop_pass"
    /\ lock' = "free"
    /\ pc' = "idle"
    /\ via' = "none"
    /\ UNCHANGED << input_port, port_open, callbacks, range, running, thread,
                    nota_buffer, arg >>
    /\ UNCHANGED << loop, interface, observed >>

\* ------------------------------------------------ ListenerGuitarra.start
BeginStart ==
    /\ pc = "idle"
    /\ pc' = "st_check"
    /\ via' = "none"
    /\ arg' = "None"
    /\ UNCHANGED << listener, loop, interface, observed >>

\* start() with its guard left out
StartGuard_Missing == TRUE

\* if not self._running and self._thread is None
StartGuard == ~running /\ thread = NoThread

StCheck ==
    /\ pc = "st_check"
    /\ IF StartGuard
       THEN pc' = "st_run" /\ UNCHANGED via
       ELSE pc' = "idle" /\ via' = "none"
    /\ UNCHANGED arg
    /\ UNCHANGED << listener, loop, interface, observed >>

StRun ==
    /\ pc = "st_run"
    /\ running' = TRUE
    /\ pc' = "st_spawn"
    /\ UNCHANGED << input_port, port_open, callbacks, lock, range, thread,
                    nota_buffer, arg, via >>
    /\ UNCHANGED << loop, interface, observed >>

\* self._thread = Thread(target=self._loop); self._thread.start()
StSpawn ==
    /\ pc = "st_spawn"
    /\ \E t \in Threads :
          /\ tpc[t] = "none"
          /\ \A u \in Threads : tpc[u] = "none" => t <= u
          /\ thread' = t
          /\ tpc' = [tpc EXCEPT ![t] = "test"]
    /\ pc' = "idle"
    /\ via' = "none"
    /\ earlier' = (nota_buffer # << >>)
    /\ UNCHANGED << input_port, port_open, callbacks, lock, range, running,
                    nota_buffer, arg >>
    /\ UNCHANGED << linha_bytes, ret, idx >>
    /\ UNCHANGED << interface, sent, user, last >>

\* ------------------------------------------------ ListenerGuitarra.close
BeginClose ==
    /\ pc = "idle"
    /\ pc' = "cl_check"
    /\ via' = "none"
    /\ arg' = "None"
    /\ UNCHANGED << listener, loop, interface, observed >>

ClCheck ==
    /\ pc = "cl_check"
    /\ pc' = IF running THEN "cl_lock" ELSE "idle"
    /\ UNCHANGED << arg, via >>
    /\ UNCHANGED << listener, loop, interface, observed >>

ClLock ==
    /\ pc = "cl_lock"
    /\ lock = "free"
    /\ lock' = "caller"
    /\ pc' = "cl_clear"
    /\ UNCHANGED << input_port, port_open, callbacks, range, running, thread,
                    nota_buffer, arg, via >>
    /\ UNCHANGED << loop, interface, observed >>

ClClear ==
    /\ pc = "cl_clear"
    /\ running' = FALSE
    /\ pc' = "cl_join"
    /\ UNCHANGED << input_port, port_open, callbacks, lock, range, thread,
                    nota_buffer, arg, via >>
    /\ UNCHANGED << loop, interface, observed >>

\* join() that does not wait for the thread to finish
Joinable_NoWait(t) == TRUE

\* what self._thread.join() waits for
Joinable(t) == Dead(t)

\* self._thread.join(); self._thread = None; the lock is released; close() returns.
\* The Thread object of a finished thread is dropped with its last reference.
\* (running is true only with self._thread set, so join() is never reached
\* on None.)
ClJoin ==
    /\ pc = "cl_join"
    /\ thread # NoThread
    /\ Joinable(thread)
    /\ tpc' = [tpc EXCEPT ![thread] = IF Dead(thread) THEN "none" ELSE @]
    /\ thread' = NoThread
    /\ lock' = "free"
    /\ pc' = "idle"
    /\ earlier' = FALSE
    /\ UNCHANGED << input_port, port_open, callbacks, range, running,
                    nota_buffer, arg, via >>
    /\ UNCHANGED << linha_bytes, ret, idx >>
    /\ UNCHANGED << interface, sent, user, last >>

\* ------------------------------------------------ ListenerGuitarra._loop
\* InRange with the tolerance taken inclusively
\* the edge test without the comparison of the codes
InRange_Any(buffer, nota, r) == TRUE

InRange_Inclusive(buffer, nota, r) ==
    ~r.nan /\ Abs(buffer.codigo - nota.codigo) <= r.v

\* abs(buffer.codigo - ret.codigo) < self._range; a comparison with NaN is false
InRange(buffer, nota, r) == ~r.nan /\ Abs(buffer.codigo - nota.codigo) < r.v

\* IsEdge with the flag comparison inverted
IsEdge_SameFlag(buffer, nota, r) ==
    ~r.nan /\ Abs(buffer.codigo - nota.codigo) < r.v /\ buffer.on = nota.on

\* the edge test of _loop
IsEdge(buffer, nota, r) == InRange(buffer, nota, r) /\ buffer.on # nota.on

\* while self._running and self._input_port.is_open
LoopTest(t) ==
    /\ tpc[t] = "test"
    /\ tpc' = [tpc EXCEPT ![t] =
                  IF ~running THEN "exit"
                  ELSE IF input_port = "None" THEN "AttributeError"
                  ELSE IF ~port_open[input_port] THEN "exit"
                  ELSE "read"]
    /\ UNCHANGED << linha_bytes, ret, idx >>
    /\ UNCHANGED << listener, caller, interface, observed >>

\* linha_bytes = self._input_port.readline(): blocks until the device sends a
\* line. On a port closed meanwhile pyserial either raises or returns b"".
ReadLine(t) ==
    /\ tpc[t] = "read"
    /\ \/ /\ port_open[input_port]
          /\ \E l \in Lines : linha_bytes' = [linha_bytes EXCEPT ![t] = l]
          /\ tpc' = [tpc EXCEPT ![t] = "parse"]
       \/ /\ ~port_open[input_port]
          /\ linha_bytes' = [linha_bytes EXCEPT ![t] = << >>]
          /\ tpc' = [tpc EXCEPT ![t] = "parse"]
       \/ /\ ~port_open[input_port]
          /\ tpc' = [tpc EXCEPT ![t] = "PortNotOpenError"]
          /\ UNCHANGED linha_bytes
    /\ sent' = << >>
    /\ user' = << >>
    /\ last' = << >>
    /\ UNCHANGED << ret, idx >>
    /\ UNCHANGED << listener, caller, interface, earlier >>

\* decoding of the line, the edge test, and the buffer update when no edge fires
Parse(t) ==
    /\ tpc[t] = "parse"
    /\ LET p == ParseLine(linha_bytes[t])
       IN  IF p.kind = "skip"
           THEN /\ tpc' = [tpc EXCEPT ![t] = "test"]
                /\ UNCHANGED << nota_buffer, ret >>
           ELSE IF p.kind = "ValueError"
           THEN /\ tpc' = [tpc EXCEPT ![t] = "ValueError"]
                /\ UNCHANGED << nota_buffer, ret >>
           ELSE IF nota_buffer # << >> /\ IsEdge(Head(nota_buffer), Head(p.nota), range)
           THEN /\ tpc' = [tpc EXCEPT ![t] = "lock"]
                /\ ret' = [ret EXCEPT ![t] = p.nota]
                /\ UNCHANGED nota_buffer
           ELSE /\ tpc' = [tpc EXCEPT ![t] = "test"]
                /\ nota_buffer' = p.nota
                /\ UNCHANGED ret
    /\ earlier' = (earlier /\ nota_buffer' = nota_buffer)
    /\ last' = IF ParseLine(linha_bytes[t]).kind = "nota"
               THEN << nota_buffer, ParseLine(linha_bytes[t]).nota >>
               ELSE << >>
    /\ linha_bytes' = [linha_bytes EXCEPT ![t] = << >>]
    /\ UNCHANGED idx
    /\ UNCHANGED << input_port, port_open, callbacks, lock, range, running,
                    thread >>
    /\ UNCHANGED << caller, interface, sent, user >>

\* with self._lock:
Acquire(t) ==
    /\ tpc[t] = "lock"
    /\ lock = "free"
    /\ lock' = "poll"
    /\ tpc' = [tpc EXCEPT ![t] = "disp"]
    /\ idx' = [idx EXCEPT ![t] = 1]
    /\ UNCHANGED << linha_bytes, ret >>
    /\ UNCHANGED << input_port, port_open, callbacks, range, running, thread,
                    nota_buffer >>
    /\ UNCHANGED << caller, interface, observed >>

\* for c in self._callbacks: the next callback is entered, or the loop is left,
\* the lock released and the buffer overwritten (self._nota_buffer = ret)
Dispatch(t) ==
    /\ tpc[t] = "disp"
    /\ IF idx[t] <= Len(callbacks)
       THEN /\ tpc' = [tpc EXCEPT ![t] = "call"]
            /\ UNCHANGED << lock, nota_buffer, ret, idx, earlier >>
       ELSE /\ tpc' = [tpc EXCEPT ![t] = "test"]
            /\ lock' = "free"
            /\ nota_buffer' = ret[t]
            /\ earlier' = FALSE
            /\ ret' = [ret EXCEPT ![t] = << >>]
            /\ idx' = [idx EXCEPT ![t] = 0]
    /\ UNCHANGED linha_bytes
    /\ UNCHANGED << input_port, port_open, callbacks, range, running, thread >>
    /\ UNCHANGED << caller, interface, sent, user, last >>

\* --------------------------------------------- InterfaceGuitarra._callback
NotaProcessada(n, o) == [nome |-> n, on |-> o]

\* self._dicionario[valor]
DictGet(dic, valor) ==
    LET i == CHOOSE k \in 1..Len(dic) : dic[k][1] = valor IN dic[i][2]

\* the comparison with twice the tolerance
Matches_Wide(nota, valor, r) == Abs(nota.codigo - 4 * valor) <= 2 * r

\* abs(nota.codigo - valor) <= self._range
Matches(nota, valor, r) == Abs(nota.codigo - 4 * valor) <= r

RECURSIVE CallbackCalls(_, _, _, _)
\* the calls of _callback_usuario made by _callback(nota), in order
CallbackCalls(valores, nota, dic, r) ==
    IF valores = << >> THEN << >>
    ELSE (IF Matches(nota, Head(valores), r)
          THEN << NotaProcessada(DictGet(dic, Head(valores)), nota.on) >>
          ELSE << >>)
         \o CallbackCalls(Tail(valores), nota, dic, r)

\* c(ret) returns: a callback registered by InterfaceGuitarra.start() has run
\* _callback(ret), any other callback is the caller's own function
CallReturn(t) ==
    /\ tpc[t] = "call"
    /\ sent' = Append(sent, << callbacks[idx[t]], Head(ret[t]) >>)
    /\ user' = IF callbacks[idx[t]] = "iface"
               THEN user \o CallbackCalls(valores_dicionario, Head(ret[t]),
                                          dicionario, rangen)
               ELSE user
    /\ idx' = [idx EXCEPT ![t] = idx[t] + 1]
    /\ tpc' = [tpc EXCEPT ![t] = "disp"]
    /\ UNCHANGED << linha_bytes, ret >>
    /\ UNCHANGED << listener, caller, interface, last, earlier >>

\* ------------------------------------------ InterfaceGuitarra.atribui_notas
RECURSIVE DictUpdate(_, _)
\* InterfaceBase.atribui_notas: self._dicionario[code] = name for every keyword
DictUpdate(dic, kwargs) ==
    IF kwargs = << >> THEN dic
    ELSE LET name == Head(kwargs)[1]
             code == Head(kwargs)[2]
             next == IF \E k \in 1..Len(dic) : dic[k][1] = code
                     THEN [k \in 1..Len(dic) |->
                             IF dic[k][1] = code THEN << code, name >> ELSE dic[k]]
                     ELSE Append(dic, << code, name >>)
         IN  DictUpdate(next, Tail(kwargs))

\* [int(key) for key in self._dicionario.keys()]
Keys(dic) == [k \in 1..Len(dic) |-> dic[k][1]]

AtribuiNotas(kwargs) ==
    /\ pc = "idle"
    /\ Len(valores_dicionario) + Len(DictUpdate(dicionario, kwargs)) <= MaxValores
    /\ dicionario' = DictUpdate(dicionario, kwargs)
    /\ valores_dicionario' = valores_dicionario \o Keys(DictUpdate(dicionario, kwargs))
    /\ chamadas' = chamadas + 1
    /\ UNCHANGED rangen
    /\ UNCHANGED << listener, loop, caller, observed >>

\* _callback(nota) called directly with any event
ResolverCall(nota) ==
    /\ pc = "idle"
    /\ sent' = << << "iface", nota >> >>
    /\ user' = CallbackCalls(valores_dicionario, nota, dicionario, rangen)
    /\ UNCHANGED << listener, loop, caller, interface, last, earlier >>

\* ---------------------------------- InterfaceGuitarra.start() and stop()
BeginInterfaceStart ==
    /\ pc = "idle"
    /\ Len(callbacks) < MaxCallbacks
    /\ pc' = "cb_lock"
    /\ arg' = "iface"
    /\ via' = "iface"
    /\ UNCHANGED << listener, loop, interface, observed >>

\* ------------------------------------------------------ specifications
CallerStep ==
    \/ SpOpen \/ SpLock \/ SpClose \/ SpAssign
    \/ CbLock \/ CbAppend
    \/ StopLock \/ StopPass
    \/ StCheck \/ StRun \/ StSpawn
    \/ ClCheck \/ ClLock \/ ClClear \/ ClJoin

CallerCall ==
    \/ \E p \in Ports : BeginSetPort(p)
    \/ BeginCallback("cbA")
    \/ \E v \in {"none", "iface"} : BeginStop(v)
    \/ BeginStart
    \/ BeginClose
    \/ BeginInterfaceStart
    \/ \E value \in RangeValues : SetRange(value)

ThreadStep(t) ==
    \/ LoopTest(t) \/ ReadLine(t) \/ Parse(t)
    \/ Acquire(t) \/ Dispatch(t) \/ CallReturn(t)

\* The pipeline as Jogo._iniciar_guitarra wires it: the interface is
\* constructed with the calibrated range and atribui_notas is called once.
Init ==
    /\ Constructed
    /\ rangen = 2
    /\ dicionario = DictUpdate(<< >>, CoreKwargs)
    /\ valores_dicionario = Keys(DictUpdate(<< >>, CoreKwargs))
    /\ chamadas = 1

Next == CallerCall \/ CallerStep \/ \E t \in Threads : ThreadStep(t)

Spec == Init /\ [][Next]_vars

\* The polling thread is scheduled, a blocking read returns a line, a callback
\* returns, and a call the caller is in goes on whenever it can.
Fairness ==
    /\ \A t \in Threads : WF_vars(ThreadStep(t))
    /\ SF_vars(CallerStep)

\* The lifecycle calls alone (InterfaceGuitarra.start(), stop(), close()),
\* under that scheduling.
NextLifecycle ==
    \/ BeginInterfaceStart
    \/ \E v \in {"none", "iface"} : BeginStop(v)
    \/ BeginClose
    \/ CallerStep
    \/ \E t \in Threads : ThreadStep(t)

FairSpec == Init /\ [][NextLifecycle]_vars /\ Fairness

\* The resolver alone: a fresh interface, any rangen the constructor accepts
\* (0 < rangen <= 0.5), configured by atribui_notas, fed events directly.
InitResolver ==
    /\ Constructed
    /\ rangen \in {1, 2}
    /\ dicionario = << >>
    /\ valores_dicionario = << >>
    /\ chamadas = 0

NextResolver ==
    \/ \E kwargs \in KwargsSet : AtribuiNotas(kwargs)
    \/ \E c \in EventCodes, o \in BOOLEAN : ResolverCall(NotaGuitarra(c, o))

SpecResolver == InitResolver /\ [][NextResolver]_vars

\* ===================================================================
\* Properties
\* ===================================================================

\* thread t leaves position p in this step
Leaves(t, p) == tpc[t] = p /\ tpc'[t] # p

\* the line thread t is decoding is a valid sample
ValidLine(t) == tpc[t] = "parse" /\ ParseLine(linha_bytes[t]).kind = "nota"

Sample(t) == Head(ParseLine(linha_bytes[t]).nota)

\* an edge as the specification words it: flags differ and the codes are
\* strictly closer than the tolerance
StatedEdge(prev, cur, r) ==
    /\ prev.on # cur.on
    /\ ~r.nan
    /\ Abs(prev.codigo - cur.codigo) < r.v

\* the calls that deliver nota to every callback of cbs, in registration order
Delivery(cbs, nota) == [i \in 1..Len(cbs) |-> << cbs[i], nota >>]

C1_Detected ==
    \A t \in Threads :
        (/\ Leaves(t, "parse")
         /\ ValidLine(t)
         /\ nota_buffer # << >>
         /\ StatedEdge(Head(nota_buffer), Sample(t), range))
        => tpc'[t] = "lock" /\ ret'[t] = << Sample(t) >> /\ sent' = << >>

C1_Dispatching ==
    \A t \in Threads :
        /\ tpc[t] \in {"disp", "call"} =>
              /\ idx[t] \in 1..(Len(callbacks) + 1)
              /\ sent = SubSeq(Delivery(callbacks, Head(ret[t])), 1, idx[t] - 1)
        /\ tpc[t] = "call" => idx[t] <= Len(callbacks)

C1_Completed ==
    \A t \in Threads :
        /\ tpc[t] \in {"disp", "call"} => callbacks' = callbacks
        /\ (tpc[t] = "disp" /\ tpc'[t] = "test")
              => sent' = Delivery(callbacks, Head(ret[t]))

\* C1: a valid sample whose flag differs from the buffered sample's and whose
\* code is strictly within the tolerance of it is dispatched; the dispatch
\* delivers that sample to the callbacks registered at that moment, one call
\* per registration, in registration order, and nothing else.
C1_EdgeDelivered ==
    /\ [][C1_Detected /\ C1_Completed]_vars
    /\ []C1_Dispatching

\* an edge between samples of the same code was delivered to two callbacks
C1_Witness ==
    /\ \E t \in Threads : tpc[t] = "test"
    /\ last # << >>
    /\ last[1] # << >>
    /\ Head(last[1]).on # Head(last[2]).on
    /\ Head(last[1]).codigo = Head(last[2]).codigo
    /\ callbacks = << "cbA", "iface" >>
    /\ sent = Delivery(callbacks, Head(last[2]))
    /\ nota_buffer = last[2]

C2_Quiet ==
    \A t \in Threads :
        (/\ Leaves(t, "parse")
         /\ ValidLine(t)
         /\ nota_buffer # << >>
         /\ ~StatedEdge(Head(nota_buffer), Sample(t), range))
        => /\ tpc'[t] = "test"
           /\ sent' = << >>
           /\ user' = << >>
           /\ nota_buffer' = << Sample(t) >>

C2_Overwritten ==
    \A t \in Threads :
        /\ (Leaves(t, "parse") /\ ValidLine(t) /\ tpc'[t] = "test")
              => nota_buffer' = << Sample(t) >>
        /\ (tpc[t] = "disp" /\ tpc'[t] = "test")
              => nota_buffer' = ret[t] /\ nota_buffer' = last[2]
        /\ tpc[t] \in {"lock", "disp", "call"} => last # << >> /\ ret[t] = last[2]

\* C2: a valid sample with the same flag as the buffered one, or with a code
\* not strictly within the tolerance of it, invokes no callback and becomes
\* the buffered sample; the buffer is overwritten with the current sample
\* after every valid line, whether or not an edge fired.
C2_NoEdgeNoEvent == [][C2_Quiet /\ C2_Overwritten]_vars

\* flags differ, the codes are a whole unit apart (more than any tolerance the
\* listener stores), nothing was delivered and the buffer holds the new sample
C2_Witness ==
    /\ \E t \in Threads : tpc[t] = "test"
    /\ last # << >>
    /\ last[1] # << >>
    /\ Head(last[1]).on # Head(last[2]).on
    /\ Head(last[1]).codigo # Head(last[2]).codigo
    /\ callbacks # << >>
    /\ sent = << >>
    /\ nota_buffer = last[2]

\* a noise line as the specification words it: undecodable, not exactly two
\* fields, a code field that is not numeric, or a flag other than "1"/"0"
StatedNoise(bytes) ==
    \/ ~Decodable(bytes)
    \/ Len(LinhaLista(bytes)) # 2
    \/ ~IsNumeric(LinhaLista(bytes)[1])
    \/ LinhaLista(bytes)[2] \notin {<<"1">>, <<"0">>}

\* C3: a noise line leaves the previous-sample buffer unchanged, invokes no
\* callback and leaves the loop where it was (ready for the next line), so
\* that inserting it in a stream changes nothing of what is dispatched.
C3_NoiseIgnored ==
    [][\A t \in Threads :
          (Leaves(t, "parse") /\ StatedNoise(linha_bytes[t]))
          => /\ nota_buffer' = nota_buffer
             /\ sent' = << >>
             /\ tpc'[t] = "test"]_vars

\* C4: when stop() returns, the running flag is false and no polling thread
\* is alive.
C4_StopJoins ==
    [][(pc = "stop_pass" /\ pc' = "idle")
          => /\ ~running'
             /\ \A t \in Threads : ~Alive(t)']_vars

\* C5: close() called while the listener is running returns.
C5_CloseReturns == (pc = "cl_check" /\ running) ~> (pc = "idle")

AliveThreads == {t \in Threads : Alive(t)}

C6_StartIdempotent ==
    (pc = "st_check" /\ pc' # pc /\ running)
    => pc' = "idle" /\ UNCHANGED << listener, loop >>

\* C6: with the caller issuing start(), stop() and close() one at a time, at
\* most one polling thread is alive; start() while running spawns no thread
\* and changes no listener state.
C6_OneThread ==
    /\ [](Cardinality(AliveThreads) <= 1)
    /\ [][C6_StartIdempotent]_vars

\* start() is called while the polling thread of an earlier start() is alive
C6_Witness ==
    /\ pc = "st_check"
    /\ running
    /\ thread # NoThread
    /\ AliveThreads = {thread}

\* the <<code, name>> pairs of the binding set
Bound == {dicionario[k] : k \in 1..Len(dicionario)}

\* calls holds, for every name, one call per code bound to it that is within
\* rangen (inclusive) of the event's code, each with the event's flag
ResolvedOnce(nota, calls) ==
    /\ \A i \in 1..Len(calls) :
          calls[i].on = nota.on /\ \E b \in Bound : b[2] = calls[i].nome
    /\ \A b \in Bound :
          Cardinality({i \in 1..Len(calls) : calls[i].nome = b[2]})
          = Cardinality({c \in Bound :
                            c[2] = b[2] /\ Abs(nota.codigo - 4 * c[1]) <= rangen})

\* C7: _callback(event) calls the user callback exactly once for every bound
\* code within rangen (inclusive) of the event's code, with the bound name and
\* the event's flag, and for no other bound code.
C7_OncePerBinding ==
    [][(UNCHANGED interface /\ Len(sent') = 1 /\ sent'[1][1] = "iface")
          => ResolvedOnce(sent'[1][2], user')]_vars

\* C8: when an input_port assignment returns, the listener holds the assigned
\* port, that port is open, and another port held before is closed.
C8_HeldPortOpen ==
    [][(pc = "sp_assign" /\ pc' # pc)
          => /\ input_port' = arg
             /\ port_open'[arg]
             /\ (input_port \notin {"None", arg} => ~port_open'[input_port])]_vars

Dispatching == {t \in Threads : tpc[t] \in {"lock", "disp", "call"}}

C9_ReadAfterReturn ==
    \A t \in Threads :
        /\ Leaves(t, "read") => Dispatching = {}
        /\ (tpc[t] = "disp" /\ tpc'[t] = "call") => Dispatching = {t}

C9_LatestSample ==
    /\ Cardinality(Dispatching) <= 1
    /\ \A i \in 1..Len(sent) : last # << >> /\ sent[i][2] = Head(last[2])
    /\ \A t \in Dispatching : last # << >> /\ ret[t] = last[2]

\* C9: every event delivered is the sample of the last line read, a line is
\* read only when no dispatch is pending or in progress, and a callback is
\* entered only by the one thread that is dispatching: the callbacks of one
\* edge have all returned before anything of the next edge begins.
C9_InOrder ==
    /\ [][C9_ReadAfterReturn]_vars
    /\ []C9_LatestSample

\* both callbacks of an edge have returned and the thread is back at readline()
C9_Witness ==
    /\ \E t \in Threads : tpc[t] = "read"
    /\ Len(sent) = 2
    /\ last # << >>
    /\ nota_buffer = last[2]

\* C10: whatever the line, while running is true and the port is open the
\* loop goes on (to the dispatch of the edge, or to the next loop test).
C10_LoopSurvives ==
    [][\A t \in Threads :
          (/\ Leaves(t, "parse")
           /\ running
           /\ input_port # "None"
           /\ port_open[input_port])
          => tpc'[t] \in {"test", "lock"}]_vars

\* the threads that are iterating self._callbacks
Iterating == {t \in Threads : tpc[t] \in {"disp", "call"}}

C11_AtomicAppend ==
    callbacks' # callbacks
    => /\ Iterating = {}
       /\ lock = "caller"
       /\ callbacks' = Append(callbacks, arg)

C11_Snapshot ==
    \A t \in Threads :
        /\ (tpc[t] = "lock" /\ tpc'[t] = "disp")
              => sent' = << >> /\ idx'[t] = 1
        /\ t \in Iterating
              => /\ callbacks' = callbacks
                 /\ Len(sent') <= Len(callbacks)
                 /\ sent' = SubSeq(Delivery(callbacks, Head(ret[t])), 1, Len(sent'))
        /\ (t \in Iterating /\ t \notin Iterating')
              => sent' = Delivery(callbacks, Head(ret[t]))

\* C11: the callback list changes only by an append made under the lock while
\* no thread is iterating it; a dispatch holds the lock from its first to its
\* last callback, so it delivers to exactly the callbacks registered when it
\* began, and a callback once registered is in the list of every later dispatch.
C11_RegistrationAtomic ==
    /\ [][C11_AtomicAppend /\ C11_Snapshot]_vars
    /\ [](Iterating # {} => lock = "poll")

\* a registration holds the lock while the polling thread, having detected an
\* edge, waits to dispatch it
C11_Witness ==
    /\ pc = "cb_append"
    /\ lock = "caller"
    /\ \E t \in Threads : tpc[t] = "lock"

\* C12: _input_port and _running are written only by a caller that holds the
\* lock.
C12_WritesUnderLock ==
    [][(input_port' # input_port \/ running' # running) => lock = "caller"]_vars

\* the step in which port.open() was attempted and raised
OpenFailed ==
    /\ pc = "sp_open"
    /\ pc' # "sp_open"
    /\ ~port_open[arg]
    /\ ~port_open'[arg]

\* C13: when port.open() fails in the input_port setter the exception reaches
\* the caller, the held port stays as it was (same handle, same open state) and
\* no thread is started; the call, InterfaceGuitarra.start() included, ends
\* there and never goes on to ListenerGuitarra.start().
C13_OpenFailure ==
    /\ [][OpenFailed =>
             /\ arg' = SerialException
             /\ pc' = "idle" /\ via' = "none"
             /\ UNCHANGED << input_port, port_open, running, thread, tpc >>]_vars
    /\ [](arg = SerialException => pc = "idle")
    /\ [](pc = "sp_lock" => port_open[arg])

\* InterfaceGuitarra.start() had its callback registered, then failed to open
\* its port while the listener held another, open port: that port is still
\* held and open, and there is no thread
C13_Witness ==
    /\ arg = SerialException
    /\ pc = "idle"
    /\ callbacks = << "iface" >>
    /\ input_port = "p2"
    /\ port_open["p2"]
    /\ ~port_open[porta]
    /\ thread = NoThread
    /\ ~running

\* C14: the stored tolerance is a number of [0, 0.5] whatever was assigned.
C14_RangeClamped ==
    /\ ~range.nan
    /\ range.v \in 0..2

\* the number of times InterfaceGuitarra.start() has registered its callback
Registrations == Cardinality({i \in 1..Len(callbacks) : callbacks[i] = "iface"})

\* InterfaceGuitarra.start() returns, and it was not the first one
SecondStartReturns ==
    /\ via = "iface"
    /\ pc \in {"st_check", "st_spawn"}
    /\ pc' = "idle"
    /\ Registrations >= 2

\* C15: when a second InterfaceGuitarra.start() returns the listener holds the
\* open port and a live polling thread as after the first one, and every
\* dispatched edge makes one user call per matching binding.
C15_StartTwice ==
    /\ [][SecondStartReturns =>
             /\ input_port' = porta
             /\ port_open'[porta]
             /\ thread' # NoThread
             /\ Alive(thread)']_vars
    /\ [][\A t \in Threads :
             (tpc[t] = "disp" /\ tpc'[t] = "test")
                 => ResolvedOnce(Head(ret[t]), user)]_vars

\* the valid line being decoded is the first one of the thread's run: the
\* buffer is empty, or holds what an earlier run left in it
FirstOfRun == nota_buffer = << >> \/ earlier

\* C16: the first valid line a polling thread processes after start() created
\* it is not dispatched, whatever the buffer holds from before that start(): it
\* only becomes the buffered sample.
C16_FirstLineSilent ==
    [][\A t \in Threads :
          (Leaves(t, "parse") /\ ValidLine(t) /\ FirstOfRun)
              => /\ tpc'[t] = "test"
                 /\ nota_buffer' = << Sample(t) >>
                 /\ sent' = << >>]_vars

\* no polling thread is alive, none has died of an exception raised by a line,
\* and the listener holds an open port
Restartable ==
    /\ \A t \in Threads : tpc[t] \in {"none", "exit", "PortNotOpenError"}
    /\ input_port # "None"
    /\ port_open[input_port]

\* C17: start() called when no polling thread is alive and the held port is
\* open goes on to create a thread, also when the last thread ended by itself
\* because its port had been closed.
C17_StartRevives ==
    [][(pc = "st_check" /\ pc' # "st_check" /\ Restartable) => pc' = "st_run"]_vars

\* the user callback was called for the line last read: that line and the valid
\* line before it carry the same code and opposite flags, and every call names
\* a binding whose code is within rangen of that code
UserCallJustified ==
    /\ last # << >>
    /\ last[1] # << >>
    /\ LET prev == Head(last[1])
           cur  == Head(last[2])
       IN  /\ prev.codigo = cur.codigo
           /\ prev.on # cur.on
           /\ \A i \in 1..Len(user) :
                 /\ user[i].on = cur.on
                 /\ \E b \in Bound :
                       b[2] = user[i].nome /\ Abs(cur.codigo - 4 * b[1]) <= rangen

\* C18: with integer codes on the wire and a listener tolerance of at most 0.5
\* (the default, or whatever the setter stored), the user callback is called
\* for a line only if it and the valid line before it carry the same code with
\* opposite flags and the code is within the resolver's tolerance of a bound
\* code; a press on one code and a release on another call nothing.
C18_PipelineEdge == user # << >> => UserCallJustified

\* with the default tolerance, a press on a bound code followed by its release
\* has called the user callback once, through InterfaceGuitarra's callback
C18_Witness ==
    /\ range = [nan |-> FALSE, v |-> 2]
    /\ callbacks = << "iface" >>
    /\ Len(user) = 1
    /\ last # << >> /\ last[1] # << >>
    /\ Head(last[1]).on /\ ~Head(last[2]).on
    /\ \E t \in Threads : tpc[t] = "test"

\* every two distinct bound codes differ by more than twice the tolerance
Separated ==
    \A b, c \in Bound : b[1] # c[1] => 4 * Abs(b[1] - c[1]) > 2 * rangen

====
